---- MODULE Spec2Model ----
(***************************************************************************)
(* Model of include/fast_float/ascii_number.h: the canonical 8-byte word   *)
(* I/O (read_u64 / write_u64), the SWAR digit primitives                    *)
(* (is_made_of_eight_digits_fast / parse_eight_digits_unrolled) and the     *)
(* number-string scanner parse_number_string.                               *)
(*                                                                         *)
(* A uint64_t is a sequence of 8 byte lanes, least-significant lane first   *)
(* (lane k holds bits 8(k-1) .. 8k-1), so every operation below is the      *)
(* 64-bit operation of the source, wrap-around included.  A pointer into    *)
(* the input is an index of the byte sequence buf; pend is Len(buf) + 1.    *)
(***************************************************************************)
EXTENDS Integers, Sequences, FiniteSets, TLC

----------------------------------------------------------------------------
(* 64-bit unsigned arithmetic on byte lanes *)

Lanes == 1..8

U64Zero == [k \in Lanes |-> 0]

\* A natural number as its little-endian base-256 digits, high zeros dropped.
RECURSIVE NatMulAdd(_, _, _)
NatMulAdd(x, m, c) ==
  IF x = <<>>
  THEN IF c = 0 THEN <<>> ELSE <<c % 256>> \o NatMulAdd(<<>>, m, c \div 256)
  ELSE LET t == x[1] * m + c
       IN  <<t % 256>> \o NatMulAdd(Tail(x), m, t \div 256)

\* The low 64 bits of a natural number.
Wrap64(x) == [k \in Lanes |-> IF k <= Len(x) THEN x[k] ELSE 0]

\* uint64_t: x * m + c, for a small multiplier m and a small addend c.
U64MulAdd(x, m, c) == Wrap64(NatMulAdd(x, m, c))

RECURSIVE U64AddFrom(_, _, _, _)
U64AddFrom(a, b, k, carry) ==
  IF k > 8 THEN <<>>
  ELSE LET t == a[k] + b[k] + carry
       IN  <<t % 256>> \o U64AddFrom(a, b, k + 1, t \div 256)

\* uint64_t: a + b
U64Add(a, b) == U64AddFrom(a, b, 1, 0)

RECURSIVE U64SubFrom(_, _, _, _)
U64SubFrom(a, b, k, borrow) ==
  IF k > 8 THEN <<>>
  ELSE LET t == a[k] - b[k] - borrow
       IN  <<t % 256>> \o U64SubFrom(a, b, k + 1, IF t < 0 THEN 1 ELSE 0)

\* uint64_t: a - b
U64Sub(a, b) == U64SubFrom(a, b, 1, 0)

RECURSIVE LaneSum(_, _, _, _)
LaneSum(a, b, k, j) ==
  IF j > k THEN 0 ELSE a[j] * b[k + 1 - j] + LaneSum(a, b, k, j + 1)

RECURSIVE U64MulFrom(_, _, _, _)
U64MulFrom(a, b, k, carry) ==
  IF k > 8 THEN <<>>
  ELSE LET t == LaneSum(a, b, k, 1) + carry
       IN  <<t % 256>> \o U64MulFrom(a, b, k + 1, t \div 256)

\* uint64_t: a * b
U64Mul(a, b) == U64MulFrom(a, b, 1, 0)

\* uint64_t: a >> (8 * n)
U64ShrBytes(a, n) == [k \in Lanes |-> IF k + n <= 8 THEN a[k + n] ELSE 0]

\* uint64_t: a << (8 * n)
U64ShlBytes(a, n) == [k \in Lanes |-> IF k - n >= 1 THEN a[k - n] ELSE 0]

RECURSIVE BitAnd(_, _)
BitAnd(x, y) ==
  IF x = 0 \/ y = 0 THEN 0
  ELSE (x % 2) * (y % 2) + 2 * BitAnd(x \div 2, y \div 2)

RECURSIVE BitOr(_, _)
BitOr(x, y) ==
  IF x = 0 THEN y
  ELSE IF y = 0 THEN x
  ELSE (IF x % 2 = 1 \/ y % 2 = 1 THEN 1 ELSE 0) + 2 * BitOr(x \div 2, y \div 2)

\* uint64_t: a & b and a | b
U64And(a, b) == [k \in Lanes |-> BitAnd(a[k], b[k])]
U64Or(a, b) == [k \in Lanes |-> BitOr(a[k], b[k])]

RECURSIVE U64LessFrom(_, _, _)
U64LessFrom(a, b, k) ==
  IF k = 0 THEN FALSE
  ELSE IF a[k] # b[k] THEN a[k] < b[k]
  ELSE U64LessFrom(a, b, k - 1)

\* uint64_t: a < b
U64Less(a, b) == U64LessFrom(a, b, 8)

\* The natural number written by a sequence of decimal digits (0..9).
RECURSIVE NatOfDigitsFrom(_, _, _)
NatOfDigitsFrom(ds, k, acc) ==
  IF k > Len(ds) THEN acc
  ELSE NatOfDigitsFrom(ds, k + 1, NatMulAdd(acc, 10, ds[k]))

NatOfDigits(ds) == NatOfDigitsFrom(ds, 1, <<>>)

\* A natural number that fits 64 bits, as a uint64_t.
FitsU64(x) == Len(x) <= 8

----------------------------------------------------------------------------
(* Canonical word I/O.  A build is [char_signed, big_endian]: whether plain   *)
(* char is a signed type and whether the host stores words most-significant   *)
(* byte first (FASTFLOAT_IS_BIG_ENDIAN == 1); both are fixed by the platform. *)

Builds == [char_signed : BOOLEAN, big_endian : BOOLEAN]

\* is_integer(char c)
is_integer(c) == c >= 48 /\ c <= 57

\* uint64_t(*chars): the conversion of one char of value byte (0..255 as stored)
\* to uint64_t; a signed char holding a byte >= 0x80 is negative and sign-extends.
CharToU64(byte, char_signed) ==
  IF char_signed /\ byte >= 128
  THEN [k \in Lanes |-> IF k = 1 THEN byte ELSE 255]
  ELSE [k \in Lanes |-> IF k = 1 THEN byte ELSE 0]

\* The uint64_t with lane k all ones.
LaneMask(k) == [j \in Lanes |-> IF j = k THEN 255 ELSE 0]

\* byteswap(uint64_t val)
byteswap(val) ==
  U64Or(U64ShrBytes(U64And(val, LaneMask(8)), 7),
  U64Or(U64ShrBytes(U64And(val, LaneMask(7)), 5),
  U64Or(U64ShrBytes(U64And(val, LaneMask(6)), 3),
  U64Or(U64ShrBytes(U64And(val, LaneMask(5)), 1),
  U64Or(U64ShlBytes(U64And(val, LaneMask(4)), 1),
  U64Or(U64ShlBytes(U64And(val, LaneMask(3)), 3),
  U64Or(U64ShlBytes(U64And(val, LaneMask(2)), 5),
        U64ShlBytes(U64And(val, LaneMask(1)), 7))))))))

\* ::memcpy(&val, chars, 8): the host word whose storage is the 8 bytes m.
MemcpyLoad(m, big_endian) ==
  IF big_endian THEN [k \in Lanes |-> m[9 - k]] ELSE [k \in Lanes |-> m[k]]

\* ::memcpy(chars, &val, 8): the 8 bytes of storage of the host word val.
MemcpyStore(val, big_endian) ==
  IF big_endian THEN [k \in Lanes |-> val[9 - k]] ELSE [k \in Lanes |-> val[k]]

RECURSIVE ReadLoop(_, _, _, _)
ReadLoop(m, i, val, char_signed) ==
  IF i >= 8 THEN val
  ELSE ReadLoop(m, i + 1,
                U64Or(val, U64ShlBytes(CharToU64(m[i + 1], char_signed), i)),
                char_signed)

\* read_u64(chars) on the 8 bytes m; in_constexpr selects the constant-evaluation path.
read_u64(m, in_constexpr, build) ==
  IF in_constexpr
  THEN ReadLoop(m, 0, U64Zero, build.char_signed)
  ELSE LET val == MemcpyLoad(m, build.big_endian)
       IN  IF build.big_endian THEN byteswap(val) ELSE val

RECURSIVE WriteLoop(_, _)
WriteLoop(i, val) ==
  IF i >= 8 THEN <<>>
  ELSE <<val[1]>> \o WriteLoop(i + 1, U64ShrBytes(val, 1))

\* write_u64(chars, val): the 8 bytes left at chars.
write_u64(val, in_constexpr, build) ==
  IF in_constexpr
  THEN WriteLoop(0, val)
  ELSE MemcpyStore(IF build.big_endian THEN byteswap(val) ELSE val, build.big_endian)

----------------------------------------------------------------------------
(* SWAR digit primitives *)

\* 0x3030303030303030, 0x4646464646464646, 0x8080808080808080
Splat(byte) == [k \in Lanes |-> byte]

\* const uint64_t mask = 0x000000FF000000FF
SwarMask == <<255, 0, 0, 0, 255, 0, 0, 0>>

\* const uint64_t mul1 = 0x000F424000000064: 100 + (1000000ULL << 32)
SwarMul1 == <<100, 0, 0, 0, 64, 66, 15, 0>>

\* const uint64_t mul2 = 0x0000271000000001: 1 + (10000ULL << 32)
SwarMul2 == <<1, 0, 0, 0, 16, 39, 0, 0>>

\* uint32_t(val), widened again to the uint64_t it is used as.
U32Of(val) == [k \in Lanes |-> IF k <= 4 THEN val[k] ELSE 0]

\* parse_eight_digits_unrolled(uint64_t val)
parse_eight_digits_unrolled(val) ==
  LET v1 == U64Sub(val, Splat(48))
      v2 == U64Add(U64MulAdd(v1, 10, 0), U64ShrBytes(v1, 1))
      v3 == U64ShrBytes(
              U64Add(U64Mul(U64And(v2, SwarMask), SwarMul1),
                     U64Mul(U64And(U64ShrBytes(v2, 2), SwarMask), SwarMul2)),
              4)
  IN  U32Of(v3)

\* Mutant of is_made_of_eight_digits_fast: the subtraction test is left out, so
\* bytes below '0' pass.
is_made_of_eight_digits_add_only(val) ==
  U64And(U64Add(val, Splat(70)), Splat(128)) = U64Zero

\* is_made_of_eight_digits_fast(uint64_t val)
is_made_of_eight_digits_fast(val) ==
  U64And(U64Or(U64Add(val, Splat(70)), U64Sub(val, Splat(48))), Splat(128)) = U64Zero

----------------------------------------------------------------------------
(* The number-string scanner.  options is [format, rules, parse_ints,        *)
(* decimal_point]; format is the set of chars_format bits that are set.      *)
(* env is [in_constexpr, build]: how read_u64 is evaluated in this call.     *)
(* Besides the fields of parsed_number_string, a result carries what the     *)
(* call did: reads (every index dereferenced), batches (8-byte groups        *)
(* folded), exp_number (the explicit exponent as accumulated), rewalk_end    *)
(* (the scan pointer when the precision-correction walk stopped, 0 when the  *)
(* walk did not run) and rewalk_overflow (a step of that walk exceeded 64    *)
(* bits).                                                                    *)

Formats == SUBSET {"fixed", "scientific"}

Rules == {"std_rules", "json_rules"}

\* if (exp_number < 0x10000000)
ExpClamp == 268435456

\* constexpr uint64_t minimal_twenty_digit_integer{10000000000000000000ULL}
minimal_twenty_digit_integer ==
  Wrap64(NatOfDigits(<<1, 0, 0, 0, 0, 0, 0, 0, 0, 0, 0, 0, 0, 0, 0, 0, 0, 0, 0, 0>>))

\* const uint64_t minimal_nineteen_digit_integer{1000000000000000000}
minimal_nineteen_digit_integer ==
  Wrap64(NatOfDigits(<<1, 0, 0, 0, 0, 0, 0, 0, 0, 0, 0, 0, 0, 0, 0, 0, 0, 0, 0>>))

\* i * 100000000
HundredMillion == Wrap64(NatOfDigits(<<1, 0, 0, 0, 0, 0, 0, 0, 0>>))

\* *p for a pointer p; memory outside the buffer is not part of the model and
\* reads as 0 (the index is still recorded among the reads).
ByteAt(buf, k) == IF k \in DOMAIN buf THEN buf[k] ELSE 0

\* The 8 bytes at p, as read_u64(p) sees them.
Window(buf, p) == [k \in Lanes |-> ByteAt(buf, p + k - 1)]

\* parsed_number_string answer; before any field is assigned.
Answer0 ==
  [exponent |-> 0, mantissa |-> U64Zero, lastmatch |-> 0, negative |-> FALSE,
   valid |-> FALSE, is_64bit_int |-> FALSE, too_many_digits |-> FALSE,
   integer |-> [ptr |-> 0, len |-> 0], fraction |-> [ptr |-> 0, len |-> 0],
   reads |-> {}, batches |-> 0, exp_number |-> 0, rewalk_end |-> 0,
   rewalk_overflow |-> FALSE]

\* if (!is_integer(*p) && (rules == parse_rules::json_rules || *p != decimal_point))
SignFollowerBad(c, options) ==
  ~is_integer(c) /\ (options.rules = "json_rules" \/ c # options.decimal_point)

\* while ((p != pend) && is_integer(*p)) { i = 10 * i + uint64_t(*p - '0'); ++p; }
RECURSIVE IntegerLoop(_, _, _, _, _)
IntegerLoop(buf, pend, p, i, rd) ==
  IF p # pend /\ is_integer(ByteAt(buf, p))
  THEN IntegerLoop(buf, pend, p + 1, U64MulAdd(i, 10, ByteAt(buf, p) - 48), rd \cup {p})
  ELSE [p |-> p, i |-> i, rd |-> IF p # pend THEN rd \cup {p} ELSE rd]

\* Mutant of BatchGuard: an off-by-one bound on the bytes that remain.
BatchGuardSeven(p, pend) == pend - p >= 7

\* std::distance(p, pend) >= 8
BatchGuard(p, pend) == pend - p >= 8

\* while ((std::distance(p, pend) >= 8) && is_made_of_eight_digits_fast(p)) {
\*   i = i * 100000000 + parse_eight_digits_unrolled(p); p += 8; }
RECURSIVE FractionBatchLoop(_, _, _, _, _, _, _)
FractionBatchLoop(buf, pend, p, i, rd, n, env) ==
  IF BatchGuard(p, pend)
  THEN LET val == read_u64(Window(buf, p), env.in_constexpr, env.build)
           rd8 == rd \cup (p .. p + 7)
       IN  IF is_made_of_eight_digits_fast(val)
           THEN FractionBatchLoop(buf, pend, p + 8,
                  U64Add(U64Mul(i, HundredMillion), parse_eight_digits_unrolled(val)),
                  rd8, n + 1, env)
           ELSE [p |-> p, i |-> i, rd |-> rd8, n |-> n]
  ELSE [p |-> p, i |-> i, rd |-> rd, n |-> n]

\* while ((p != pend) && is_integer(*p)) { uint8_t digit = uint8_t(*p - '0'); ++p;
\*   i = i * 10 + digit; }
RECURSIVE FractionLoop(_, _, _, _, _)
FractionLoop(buf, pend, p, i, rd) ==
  IF p # pend /\ is_integer(ByteAt(buf, p))
  THEN FractionLoop(buf, pend, p + 1, U64MulAdd(i, 10, ByteAt(buf, p) - 48), rd \cup {p})
  ELSE [p |-> p, i |-> i, rd |-> IF p # pend THEN rd \cup {p} ELSE rd]

\* The state after the fraction digits: the digit loop's, and the batches folded.
FractionResult(f, n) == [p |-> f.p, i |-> f.i, rd |-> f.rd, n |-> n]

\* The digit loop of the fraction, run from where the batch loop b stopped.
AfterBatch(buf, pend, b) ==
  FractionResult(FractionLoop(buf, pend, b.p, b.i, b.rd), b.n)

\* The fraction digits after the decimal point: the batch loop, then the digit loop.
FractionDigits(buf, pend, before, i, rd, env) ==
  AfterBatch(buf, pend, FractionBatchLoop(buf, pend, before, i, rd, 0, env))

\* Mutant of NoDigits: the test for no digit at all is left out.
NoDigitsJsonOnly(digit_count, has_decimal_point, options) ==
  options.rules = "json_rules" /\ has_decimal_point /\ digit_count = 1

\* if (digit_count == 0 || (rules == json_rules && has_decimal_point && digit_count == 1))
NoDigits(digit_count, has_decimal_point, options) ==
  \/ digit_count = 0
  \/ options.rules = "json_rules" /\ has_decimal_point /\ digit_count = 1

\* while ((p != pend) && is_integer(*p)) { ... if (exp_number < 0x10000000) {
\*   exp_number = 10 * exp_number + digit; } ++p; }
RECURSIVE ExponentLoop(_, _, _, _, _)
ExponentLoop(buf, pend, p, exp_number, rd) ==
  IF p # pend /\ is_integer(ByteAt(buf, p))
  THEN ExponentLoop(buf, pend, p + 1,
         IF exp_number < ExpClamp THEN 10 * exp_number + (ByteAt(buf, p) - 48)
         ELSE exp_number,
         rd \cup {p})
  ELSE [p |-> p, exp_number |-> exp_number, rd |-> IF p # pend THEN rd \cup {p} ELSE rd]

\* Mutant of RollBack: the scan pointer stays after the marker and its sign.
NoRollBack(location_of_e, p) == p

\* // Otherwise, we will be ignoring the 'e'.   p = location_of_e;
RollBack(location_of_e, p) == location_of_e

\* The explicit exponential part: [ok, p, exp_number, rd]; ok = FALSE is the
\* "We are in error" return and the "scientific and not fixed" bail-out.
ExponentPart(buf, pend, p, fmt, rd) ==
  IF "scientific" \in fmt /\ p # pend /\ ByteAt(buf, p) \in {101, 69}
  THEN LET location_of_e == p
           p1 == p + 1
           neg_exp == p1 # pend /\ ByteAt(buf, p1) = 45
           plus == ~neg_exp /\ p1 # pend /\ ByteAt(buf, p1) = 43
           p2 == IF neg_exp \/ plus THEN p1 + 1 ELSE p1
           rd2 == rd \cup {p} \cup (IF p1 # pend THEN {p1} ELSE {})
                     \cup (IF p2 # pend THEN {p2} ELSE {})
       IN  IF p2 = pend \/ ~is_integer(ByteAt(buf, p2))
           THEN IF "fixed" \notin fmt
                THEN [ok |-> FALSE, p |-> p2, exp_number |-> 0, rd |-> rd2]
                ELSE [ok |-> TRUE, p |-> RollBack(location_of_e, p2), exp_number |-> 0,
                      rd |-> rd2]
           ELSE LET l == ExponentLoop(buf, pend, p2, 0, rd2)
                IN  [ok |-> TRUE, p |-> l.p,
                     exp_number |-> IF neg_exp THEN -l.exp_number ELSE l.exp_number,
                     rd |-> l.rd]
  ELSE [ok |-> ~("scientific" \in fmt /\ "fixed" \notin fmt), p |-> p, exp_number |-> 0,
        rd |-> IF "scientific" \in fmt /\ p # pend THEN rd \cup {p} ELSE rd]

\* if (rules == json_rules && start_digits[0] == '0' && digit_count >= 2 &&
\*     is_integer(start_digits[1])) return answer;
LeadingZero(buf, start_digits, digit_count, options) ==
  /\ options.rules = "json_rules"
  /\ ByteAt(buf, start_digits) = 48
  /\ digit_count >= 2
  /\ is_integer(ByteAt(buf, start_digits + 1))

\* The indices the leading-zero test dereferences (&& evaluates left to right).
LeadingZeroReads(buf, start_digits, digit_count, options) ==
  IF options.rules # "json_rules" THEN {}
  ELSE IF ByteAt(buf, start_digits) = 48 /\ digit_count >= 2
       THEN {start_digits, start_digits + 1}
       ELSE {start_digits}

\* while ((start != pend) && (*start == '0' || *start == decimal_point)) {
\*   if(*start == '0') { digit_count --; } start++; }
RECURSIVE TrimLoop(_, _, _, _, _, _)
TrimLoop(buf, pend, start, digit_count, rd, decimal_point) ==
  IF start # pend /\ (ByteAt(buf, start) = 48 \/ ByteAt(buf, start) = decimal_point)
  THEN TrimLoop(buf, pend, start + 1,
         IF ByteAt(buf, start) = 48 THEN digit_count - 1 ELSE digit_count,
         rd \cup {start}, decimal_point)
  ELSE [digit_count |-> digit_count, rd |-> IF start # pend THEN rd \cup {start} ELSE rd]

\* Mutant of TooManyDigits: the 20-digit carve-out is left out.
TooManyDigitsNoCarveOut(digit_count, i, is_64bit_int, options) == digit_count > 19

\* Mutant of TooManyDigits: the 20-digit threshold is applied to every literal.
TooManyDigitsAboveTwenty(digit_count, i, is_64bit_int, options) ==
  IF options.rules = "json_rules" /\ options.parse_ints /\ is_64bit_int
  THEN digit_count > 20 \/ U64Less(i, minimal_twenty_digit_integer)
  ELSE digit_count > 20

\* answer.too_many_digits = rules == json_rules && parse_ints && answer.is_64bit_int ?
\*     (digit_count > 20 || i < minimal_twenty_digit_integer) : digit_count > 19;
TooManyDigits(digit_count, i, is_64bit_int, options) ==
  IF options.rules = "json_rules" /\ options.parse_ints /\ is_64bit_int
  THEN digit_count > 20 \/ U64Less(i, minimal_twenty_digit_integer)
  ELSE digit_count > 19

\* while((i < minimal_nineteen_digit_integer) && (p != end)) {
\*   i = i * 10 + uint64_t(*p - '0'); ++p; }
RECURSIVE RewalkLoop(_, _, _, _, _, _)
RewalkLoop(buf, p, end, i, rd, ovf) ==
  IF U64Less(i, minimal_nineteen_digit_integer) /\ p # end
  THEN RewalkLoop(buf, p + 1, end, U64MulAdd(i, 10, ByteAt(buf, p) - 48), rd \cup {p},
                  ovf \/ ~FitsU64(NatMulAdd(i, 10, ByteAt(buf, p) - 48)))
  ELSE [p |-> p, i |-> i, rd |-> rd, ovf |-> ovf]

\* Mutant of RewalkResult: after the fraction walk the exponent counts the
\* fraction digits left unconsumed.
RewalkResultLeftOver(answer, end_of_integer_part, exp_number, w1, w2) ==
  IF ~U64Less(w1.i, minimal_nineteen_digit_integer)
  THEN [i |-> w1.i, exponent |-> end_of_integer_part - w1.p + exp_number,
        p |-> w1.p, rd |-> w1.rd, ovf |-> w1.ovf]
  ELSE [i |-> w2.i,
        exponent |-> answer.fraction.ptr + answer.fraction.len - w2.p + exp_number,
        p |-> w2.p, rd |-> w2.rd, ovf |-> w2.ovf]

\* Lines 250-260: i and exponent after the walk w1 over the integer span and,
\* when that left i short of 19 digits, the walk w2 over the fraction span.
RewalkResult(answer, end_of_integer_part, exp_number, w1, w2) ==
  IF ~U64Less(w1.i, minimal_nineteen_digit_integer)
  THEN [i |-> w1.i, exponent |-> end_of_integer_part - w1.p + exp_number,
        p |-> w1.p, rd |-> w1.rd, ovf |-> w1.ovf]
  ELSE [i |-> w2.i, exponent |-> answer.fraction.ptr - w2.p + exp_number,
        p |-> w2.p, rd |-> w2.rd, ovf |-> w2.ovf]

\* The walk over the fraction span, which runs when w1 left i below 10^18.
RewalkFraction(buf, answer, w1) ==
  IF ~U64Less(w1.i, minimal_nineteen_digit_integer)
  THEN w1
  ELSE RewalkLoop(buf, answer.fraction.ptr, answer.fraction.ptr + answer.fraction.len,
                  w1.i, w1.rd, w1.ovf)

\* Lines 242-260, after the walk w1 over the integer span.
RewalkFrom(buf, answer, end_of_integer_part, exp_number, w1) ==
  RewalkResult(answer, end_of_integer_part, exp_number, w1,
               RewalkFraction(buf, answer, w1))

\* The body of if (answer.too_many_digits): i and exponent re-derived from the
\* integer span and, when that is short of 19 digits, the fraction span.
Rewalk(buf, answer, end_of_integer_part, exp_number, rd) ==
  RewalkFrom(buf, answer, end_of_integer_part, exp_number,
             RewalkLoop(buf, answer.integer.ptr, answer.integer.ptr + answer.integer.len,
                        U64Zero, rd, FALSE))

\* Lines 238-265 with the re-derived w: the corrected result.
Corrected(a, w) ==
  [a EXCEPT !.too_many_digits = TRUE, !.is_64bit_int = FALSE, !.exponent = w.exponent,
            !.mantissa = w.i, !.reads = w.rd, !.rewalk_end = w.p,
            !.rewalk_overflow = w.ovf]

\* Lines 230-266, after the trimming loop returned t.
AfterTrim(buf, options, a, end_of_integer_part, i, exponent, exp_number, t) ==
  IF TooManyDigits(t.digit_count, i, a.is_64bit_int, options)
  THEN Corrected(a, Rewalk(buf, a, end_of_integer_part, exp_number, t.rd))
  ELSE [a EXCEPT !.exponent = exponent, !.mantissa = i, !.reads = t.rd]

\* Lines 211-266: the result fields and, for more than 19 digits, the
\* precision correction.
Accept(buf, pend, options, a, start_digits, end_of_integer_part, i, digit_count, exponent, exp_number) ==
  IF digit_count > 19
  THEN AfterTrim(buf, options, a, end_of_integer_part, i, exponent, exp_number,
                 TrimLoop(buf, pend, start_digits, digit_count, a.reads,
                          options.decimal_point))
  ELSE [a EXCEPT !.exponent = exponent, !.mantissa = i]

\* Lines 207-266: the leading-zero check, then the accepted result.
Finish(buf, pend, options, a, start_digits, end_of_integer_part, p, i, digit_count, exponent, exp_number, rd) ==
  IF LeadingZero(buf, start_digits, digit_count, options)
  THEN [a EXCEPT !.reads = rd \cup LeadingZeroReads(buf, start_digits, digit_count, options)]
  ELSE Accept(buf, pend, options,
              [a EXCEPT !.lastmatch = p, !.valid = TRUE,
                        !.is_64bit_int = (p = end_of_integer_part),
                        !.exp_number = exp_number,
                        !.reads = rd \cup LeadingZeroReads(buf, start_digits, digit_count,
                                                         options)],
              start_digits, end_of_integer_part, i, digit_count, exponent, exp_number)

\* Lines 173-266, after the exponential part returned e.
AfterExponent(buf, pend, options, a, start_digits, end_of_integer_part, i, digit_count, exponent, e) ==
  IF ~e.ok
  THEN [a EXCEPT !.reads = e.rd]
  ELSE Finish(buf, pend, options, a, start_digits, end_of_integer_part, e.p, i,
              digit_count, exponent + e.exp_number, e.exp_number, e.rd)

\* Lines 165-266, after the fraction digits returned fl: exponent = before - p,
\* digit_count -= exponent, the digit-count test, then the exponent.
AfterFraction(buf, pend, options, a, start_digits, end_of_integer_part, has_decimal_point, fl) ==
  LET before == end_of_integer_part + 1
      exponent == IF has_decimal_point THEN before - fl.p ELSE 0
      digit_count == (end_of_integer_part - start_digits) - exponent
      a1 == [a EXCEPT !.integer = [ptr |-> start_digits,
                                   len |-> end_of_integer_part - start_digits],
                      !.fraction = IF has_decimal_point
                                   THEN [ptr |-> before, len |-> fl.p - before]
                                   ELSE @,
                      !.batches = fl.n,
                      !.reads = fl.rd]
  IN  IF NoDigits(digit_count, has_decimal_point, options)
      THEN a1
      ELSE AfterExponent(buf, pend, options, a1, start_digits, end_of_integer_part, fl.i,
                         digit_count, exponent,
                         ExponentPart(buf, pend, fl.p, options.format, fl.rd))

\* Lines 146-266, after the integer loop returned il.
AfterInteger(buf, pend, options, env, a, start_digits, il) ==
  IF il.p # pend /\ ByteAt(buf, il.p) = options.decimal_point
  THEN AfterFraction(buf, pend, options, a, start_digits, il.p, TRUE,
                     FractionDigits(buf, pend, il.p + 1, il.i, il.rd, env))
  ELSE AfterFraction(buf, pend, options, a, start_digits, il.p, FALSE,
                     [p |-> il.p, i |-> il.i, rd |-> il.rd, n |-> 0])

\* Lines 135-266: the integer digits, the fraction, the digit-count test and
\* the exponent, from the first byte after the sign.
Digits(buf, pend, options, env, a, start_digits) ==
  AfterInteger(buf, pend, options, env, a, start_digits,
               IntegerLoop(buf, pend, start_digits, U64Zero, a.reads))

\* Lines 121-134: the sign was consumed and the scan stops at once.
SignStops(buf, p, pend, options) ==
  /\ ByteAt(buf, p) = 45
  /\ (p + 1 = pend \/ SignFollowerBad(ByteAt(buf, p + 1), options))

\* parsed_number_string parse_number_string(const char *p, const char *pend,
\*                                          parse_options options)
parse_number_string(buf, p, pend, options, env) ==
  LET sign == ByteAt(buf, p) = 45
      a == [Answer0 EXCEPT !.negative = sign,
                           !.reads = IF sign /\ p + 1 # pend THEN {p, p + 1} ELSE {p}]
  IN  IF SignStops(buf, p, pend, options)
      THEN a
      ELSE Digits(buf, pend, options, env, a, IF sign THEN p + 1 ELSE p)

----------------------------------------------------------------------------
(* Inputs *)

\* Bounds of the explored inputs.
MaxShort == 4
MaxTail == 1
MaxFree == 2

\* The ASCII text of a sequence of decimal digits.
Asc(ds) == [k \in 1..Len(ds) |-> 48 + ds[k]]

\* Every non-empty byte string over alphabet of at most n bytes.
Strings(alphabet, n) == UNION {[1..k -> alphabet] : k \in 1..n}

\* '-' '.' '0' '1' 'e'
ShortAlphabet == {45, 46, 48, 49, 101}

ShortInputs == Strings(ShortAlphabet, MaxShort)

\* "", "-", "0", ".", "0.", "1.": what precedes a long run of digits.
Heads == {<<>>, <<45>>, <<48>>, <<46>>, <<48, 46>>, <<49, 46>>}

\* Long digit runs at the 8-digit batch and the 19/20/21-digit boundaries.
Bodies ==
  { Asc(<<1, 2, 3, 4, 5, 6, 7, 8>>),
    Asc(<<1, 2, 3, 4, 5, 6, 7, 8, 9, 0, 1, 2, 3, 4, 5, 6>>),
    Asc(<<9, 9, 9, 9, 9, 9, 9, 9, 9, 9, 9, 9, 9, 9, 9, 9, 9, 9>>),
    Asc(<<9, 9, 9, 9, 9, 9, 9, 9, 9, 9, 9, 9, 9, 9, 9, 9, 9, 9, 9>>),
    Asc(<<0, 0, 0, 0, 0, 0, 0, 0, 0, 0, 0, 0, 0, 0, 0, 0, 0, 0, 0>>),
    Asc(<<1, 0, 0, 0, 0, 0, 0, 0, 0, 0, 0, 0, 0, 0, 0, 0, 0, 0, 0, 0>>),
    Asc(<<1, 8, 4, 4, 6, 7, 4, 4, 0, 7, 3, 7, 0, 9, 5, 5, 1, 6, 1, 5>>),
    Asc(<<1, 8, 4, 4, 6, 7, 4, 4, 0, 7, 3, 7, 0, 9, 5, 5, 1, 6, 1, 6>>),
    Asc(<<2, 8, 4, 4, 6, 7, 4, 4, 0, 7, 3, 7, 0, 9, 5, 5, 1, 6, 1, 6>>),
    Asc(<<1, 2, 3, 4, 5, 6, 7, 8, 9, 0, 1, 2, 3, 4, 5, 6, 7, 8, 9, 0, 1, 2, 3, 4>>) }

\* '.' '0' '1' 'e' 'x'
TailAlphabet == {46, 48, 49, 101, 120}

Tails == {<<>>} \cup Strings(TailAlphabet, MaxTail)

LongInputs == {h \o b \o t : h \in Heads, b \in Bodies, t \in Tails}

\* 21 digits: "123456789012345678901"
Digits21 == Asc(<<1, 2, 3, 4, 5, 6, 7, 8, 9, 0, 1, 2, 3, 4, 5, 6, 7, 8, 9, 0, 1>>)

\* An explicit exponent of 11 digits, "20000000001", whose accumulation stops
\* after the tenth.
Exp11 == Asc(<<2, 0, 0, 0, 0, 0, 0, 0, 0, 0, 1>>)

\* Literals with exponents, '+', 'E', ',', bytes >= 0x80, and fractions that
\* leave 7 bytes before the end.
PinnedInputs ==
  { <<49, 46, 53, 101>>,                      \* 1.5e
    <<49, 46, 53, 101, 43>>,                  \* 1.5e+
    <<49, 46, 53, 101, 45, 120>>,             \* 1.5e-x
    <<49, 46, 53, 69, 45, 51>>,               \* 1.5E-3
    <<49, 50, 101, 43, 55, 120>>,             \* 12e+7x
    <<43, 49>>,                               \* +1
    <<46, 53, 53>>,                           \* .55
    <<45, 46, 53, 53>>,                       \* -.55
    <<49, 50, 46>>,                           \* 12.
    <<48, 46, 53, 44, 55>>,                   \* 0.5,7
    <<48, 46, 49, 50, 51, 52, 53, 54, 55>>,                     \* 0.1234567
    <<49, 46, 49, 50, 51, 52, 53, 54, 55, 56, 57, 48, 49, 50, 51, 52, 53>>,  \* 1.123456789012345
    <<49, 46, 49, 50, 51, 52, 53, 54, 55, 128>>,                \* 1.1234567\x80
    <<49, 46, 49, 50, 51, 52, 53, 54, 55, 56, 49, 255, 57>>,    \* 1.123456781\xFF9
    Digits21 \o <<69, 45, 49>>,               \* 123456789012345678901E-1
    Digits21 \o <<101>>,                      \* 123456789012345678901e
    Digits21 \o <<101, 43>> \o Exp11,         \* 123456789012345678901e+20000000001
    <<49, 46>> \o Digits21 \o <<101, 45>> \o Exp11 }

Inputs == ShortInputs \cup LongInputs \cup PinnedInputs

Options ==
  [format : Formats, rules : Rules, parse_ints : BOOLEAN, decimal_point : {46}]

Envs == [in_constexpr : BOOLEAN, build : Builds]

\* The runtime path on a little-endian host with unsigned char.
DefaultEnv ==
  [in_constexpr |-> FALSE, build |-> [char_signed |-> FALSE, big_endian |-> FALSE]]

\* The inputs scanned under every evaluation path of read_u64: those whose
\* fraction holds 8 bytes or more, among them bytes >= 0x80.
BatchInputs ==
  {b \in PinnedInputs \cup {h \o Asc(<<1, 2, 3, 4, 5, 6, 7, 8>>) \o t :
                              h \in {<<46>>, <<49, 46>>}, t \in Tails} :
     \E k \in DOMAIN b : b[k] = 46 /\ Len(b) - k >= 8}

\* The 8-byte words of the word machine: the digits "12345678" with up to
\* MaxFree adjacent lanes replaced by bytes at the edges of the digit range
\* and of the carry and borrow ranges.
EdgeBytes == {47, 48, 57, 58, 128, 186}

Words ==
  {[k \in Lanes |-> IF k >= lo /\ k < lo + MaxFree THEN f[k - lo + 1] ELSE 48 + k] :
     lo \in 1..(9 - MaxFree), f \in [1..MaxFree -> EdgeBytes]}

----------------------------------------------------------------------------
(* The state machines *)

VARIABLES
  buf,      \* the caller's bytes; the range scanned is [start, Len(buf) + 1)
  options,  \* parse_options of the call
  env,      \* how read_u64 is evaluated: [in_constexpr, build]
  start,    \* the pointer p the scan begins at
  answer,   \* the parsed_number_string returned by the last scan
  prev,     \* [start, lastmatch] of the scan before the last one
  pc,       \* "ready" | "done" for the scanner; "mem" .. for the word machine
  mem,      \* 8 bytes of memory
  word,     \* the uint64_t last read from mem
  stored,   \* the uint64_t last written to mem
  eight     \* [is, val]: the results of the two SWAR primitives on word

vars == <<buf, options, env, start, answer, prev, pc, mem, word, stored, eight>>

pend == Len(buf) + 1

Eight0 == [is |-> FALSE, val |-> U64Zero]

InitScan ==
  /\ \E cfg \in (Inputs \X {DefaultEnv}) \cup (BatchInputs \X Envs) :
       buf = cfg[1] /\ env = cfg[2]
  /\ options \in Options
  /\ start = 1
  /\ answer = Answer0
  /\ prev = [start |-> 0, lastmatch |-> 0]
  /\ pc = "ready"
  /\ mem = Splat(48)
  /\ word = U64Zero
  /\ stored = U64Zero
  /\ eight = Eight0

InitWord ==
  /\ mem \in Words
  /\ env \in Envs
  /\ pc = "mem"
  /\ word = U64Zero
  /\ stored = U64Zero
  /\ eight = Eight0
  /\ buf = <<48>>
  /\ options = [format |-> {"fixed"}, rules |-> "std_rules", parse_ints |-> FALSE,
                decimal_point |-> 46]
  /\ start = 1
  /\ answer = Answer0
  /\ prev = [start |-> 0, lastmatch |-> 0]

\* A call parse_number_string(start, pend, options).
Scan ==
  /\ pc = "ready"
  /\ answer' = parse_number_string(buf, start, pend, options, env)
  /\ pc' = "done"
  /\ UNCHANGED <<buf, options, env, start, prev, mem, word, stored, eight>>

\* The caller scans again from lastmatch, as for a list of numbers.
Rescan ==
  /\ pc = "done"
  /\ answer.valid
  /\ answer.lastmatch < pend
  /\ prev' = [start |-> start, lastmatch |-> answer.lastmatch]
  /\ start' = answer.lastmatch
  /\ answer' = parse_number_string(buf, answer.lastmatch, pend, options, env)
  /\ UNCHANGED <<buf, options, env, pc, mem, word, stored, eight>>

\* word = read_u64(mem)
ReadWord ==
  /\ pc = "mem"
  /\ word' = read_u64(mem, env.in_constexpr, env.build)
  /\ pc' = "read"
  /\ UNCHANGED <<buf, options, env, start, answer, prev, mem, stored, eight>>

\* is_made_of_eight_digits_fast(word) and parse_eight_digits_unrolled(word)
TestEight ==
  /\ pc = "read"
  /\ eight' = [is |-> is_made_of_eight_digits_fast(word),
               val |-> parse_eight_digits_unrolled(word)]
  /\ pc' = "tested"
  /\ UNCHANGED <<buf, options, env, start, answer, prev, mem, word, stored>>

\* write_u64(mem, val) for the word val whose canonical bytes are those of mem.
WriteWord ==
  /\ pc = "mem"
  /\ stored' = [k \in Lanes |-> mem[k]]
  /\ mem' = write_u64([k \in Lanes |-> mem[k]], env.in_constexpr, env.build)
  /\ pc' = "written"
  /\ UNCHANGED <<buf, options, env, start, answer, prev, word, eight>>

\* read_u64 at the address just written.
ReadBack ==
  /\ pc = "written"
  /\ word' = read_u64(mem, env.in_constexpr, env.build)
  /\ pc' = "readback"
  /\ UNCHANGED <<buf, options, env, start, answer, prev, mem, stored, eight>>

NextScan == Scan \/ Rescan

NextWord == ReadWord \/ TestEight \/ WriteWord \/ ReadBack

Next == NextScan \/ NextWord

\* The scanner alone, the word machine alone, and both.
SpecScan == InitScan /\ [][NextScan]_vars

SpecWord == InitWord /\ [][NextWord]_vars

Spec == (InitScan \/ InitWord) /\ [][Next]_vars

----------------------------------------------------------------------------
(* What the claims speak of: the literal as the input spells it. *)

\* The first index >= k of b that holds no ASCII digit (Len(b) + 1 if none).
RECURSIVE SkipDigits(_, _)
SkipDigits(b, k) ==
  IF k <= Len(b) /\ b[k] >= 48 /\ b[k] <= 57 THEN SkipDigits(b, k + 1) ELSE k

\* The first index after the optional '-', the integer digits, the decimal
\* point and the fraction digits of the input at start: where an exponent
\* marker can stand.
MarkerPos ==
  LET s1 == IF buf[start] = 45 THEN start + 1 ELSE start
      i1 == SkipDigits(buf, s1)
  IN  IF i1 < pend /\ buf[i1] = options.decimal_point THEN SkipDigits(buf, i1 + 1) ELSE i1

\* An 'e' or 'E' stands at MarkerPos.
MarkerPresent == MarkerPos < pend /\ buf[MarkerPos] \in {101, 69}

\* The marker (and its optional sign) is followed by no digit.
Dangling ==
  /\ MarkerPresent
  /\ LET a == MarkerPos + 1
         b == IF a < pend /\ buf[a] \in {43, 45} THEN a + 1 ELSE a
     IN  b = pend \/ ~(buf[b] >= 48 /\ buf[b] <= 57)

\* The spans of a valid answer, and the decimal digits they cover.
IntEnd == answer.integer.ptr + answer.integer.len
HasPoint == answer.fraction.ptr # 0
MantEnd == IF HasPoint THEN answer.fraction.ptr + answer.fraction.len ELSE IntEnd
SpanDigits(span) == [k \in 1..span.len |-> buf[span.ptr + k - 1] - 48]
IntDigits == SpanDigits(answer.integer)
FracDigits == SpanDigits(answer.fraction)
AllDigits == IntDigits \o FracDigits

RECURSIVE StripZeros(_)
StripZeros(ds) == IF ds # <<>> /\ ds[1] = 0 THEN StripZeros(Tail(ds)) ELSE ds

\* The number of digits that remain after the leading zeros are trimmed.
SigDigits == Len(StripZeros(AllDigits))

\* The decimal digits of a natural number; none for 0.
RECURSIVE DecimalOf(_)
DecimalOf(n) == IF n = 0 THEN <<>> ELSE DecimalOf(n \div 10) \o <<n % 10>>

Abs(n) == IF n < 0 THEN -n ELSE n

\* The explicit exponent as the input spells it between MantEnd and lastmatch:
\* its sign and its digits.
ExpConsumed == answer.lastmatch > MantEnd
ExpSigned == ExpConsumed /\ buf[MantEnd + 1] \in {43, 45}
ExpNeg == ExpConsumed /\ buf[MantEnd + 1] = 45
ExpFirst == IF ExpSigned THEN MantEnd + 2 ELSE MantEnd + 1
ExpDigits ==
  IF ExpConsumed THEN [k \in 1..(answer.lastmatch - ExpFirst) |-> buf[ExpFirst + k - 1] - 48]
  ELSE <<>>

\* The integer x is the value of the explicit exponent the input spells
\* (compared digit by digit: the value itself may exceed any machine integer).
ExplicitIs(x) ==
  /\ DecimalOf(Abs(x)) = StripZeros(ExpDigits)
  /\ x < 0 => ExpNeg
  /\ x > 0 => ~ExpNeg

\* The mantissa is the value of the first Len(AllDigits) - k digits.
TruncatedBy(k) ==
  LET v == NatOfDigits(SubSeq(AllDigits, 1, Len(AllDigits) - k))
  IN  FitsU64(v) /\ answer.mantissa = Wrap64(v)

\* The exact-integer carve-out: json rules, parse_ints and a literal of digits only.
CarveOut ==
  options.rules = "json_rules" /\ options.parse_ints /\ answer.lastmatch = IntEnd

\* The input at start is an optional '-' and exactly 20 digits, the first not
\* '0', followed by no '.', 'e' or 'E'.
PureInt20 ==
  LET s1 == IF buf[start] = 45 THEN start + 1 ELSE start
      e1 == SkipDigits(buf, s1)
  IN  /\ e1 - s1 = 20
      /\ buf[s1] # 48
      /\ e1 = pend \/ buf[e1] \notin {46, 101, 69}

PureInt20Value ==
  LET s1 == IF buf[start] = 45 THEN start + 1 ELSE start
  IN  NatOfDigits([k \in 1..20 |-> buf[s1 + k - 1] - 48])

\* The scanner with the batch loop removed: the fraction is consumed one digit
\* at a time.
ScalarAfterInteger(b, pe, opts, a, start_digits, il) ==
  IF il.p # pe /\ ByteAt(b, il.p) = opts.decimal_point
  THEN AfterFraction(b, pe, opts, a, start_digits, il.p, TRUE,
                     FractionResult(FractionLoop(b, pe, il.p + 1, il.i, il.rd), 0))
  ELSE AfterFraction(b, pe, opts, a, start_digits, il.p, FALSE,
                     [p |-> il.p, i |-> il.i, rd |-> il.rd, n |-> 0])

ScalarScan(b, p, pe, opts) ==
  LET sign == ByteAt(b, p) = 45
      a == [Answer0 EXCEPT !.negative = sign,
                           !.reads = IF sign /\ p + 1 # pe THEN {p, p + 1} ELSE {p}]
      s1 == IF sign THEN p + 1 ELSE p
  IN  IF SignStops(b, p, pe, opts)
      THEN a
      ELSE ScalarAfterInteger(b, pe, opts, a, s1, IntegerLoop(b, pe, s1, U64Zero, a.reads))

\* The fields of a result that a caller can see.
Visible(a) ==
  [exponent |-> a.exponent, mantissa |-> a.mantissa, lastmatch |-> a.lastmatch,
   negative |-> a.negative, valid |-> a.valid, is_64bit_int |-> a.is_64bit_int,
   too_many_digits |-> a.too_many_digits, integer |-> a.integer,
   fraction |-> a.fraction]

Scanned == pc \in {"done"}

----------------------------------------------------------------------------
(* The claims *)

\* C1: whenever the scan returns valid with too_many_digits false, the
\* mantissa is the exact, unwrapped value of the integer digits followed by
\* the fraction digits, and the exponent is the explicit exponent minus the
\* number of fraction digits.
C1_ExactWhenNotTooMany ==
  (Scanned /\ answer.valid /\ ~answer.too_many_digits) =>
    /\ TruncatedBy(0)
    /\ ExplicitIs(answer.exponent + Len(FracDigits))

C3_DigitsBothSides ==
  (Scanned /\ options.rules = "json_rules" /\ answer.valid /\ HasPoint) =>
    answer.integer.len >= 1 /\ answer.fraction.len >= 1

\* C4: a valid scan has start < lastmatch <= end; lastmatch is the first byte
\* not consumed (the spans, the point between them and a complete exponent end
\* there, and no digit stands at it), also when the precision correction ran;
\* and a scan from a previous lastmatch reads no byte before it.
C4_Boundary ==
  /\ (Scanned /\ answer.valid) =>
       /\ start < answer.lastmatch /\ answer.lastmatch <= pend
       /\ answer.integer.ptr = (IF buf[start] = 45 THEN start + 1 ELSE start)
       /\ \A k \in answer.integer.ptr .. (IntEnd - 1) : is_integer(buf[k])
       /\ HasPoint =>
            /\ answer.fraction.ptr = IntEnd + 1
            /\ buf[IntEnd] = options.decimal_point
            /\ \A k \in answer.fraction.ptr .. (MantEnd - 1) : is_integer(buf[k])
       /\ MantEnd <= answer.lastmatch
       /\ ExpConsumed =>
            /\ "scientific" \in options.format
            /\ buf[MantEnd] \in {101, 69}
            /\ Len(ExpDigits) >= 1
            /\ \A k \in DOMAIN ExpDigits : ExpDigits[k] \in 0..9
       /\ answer.lastmatch < pend => ~is_integer(buf[answer.lastmatch])
  /\ (Scanned /\ prev.lastmatch # 0) =>
       /\ start = prev.lastmatch /\ prev.start < start
       /\ \A r \in answer.reads : r >= prev.lastmatch

\* C4 witness: a second scan from lastmatch that is valid in turn, with a
\* fraction.
C4_Witness ==
  Scanned /\ prev.lastmatch # 0 /\ answer.valid /\ answer.fraction.len > 0

\* C5: with scientific notation permitted and a marker followed by no digit,
\* the scan, if fixed is permitted too, returns what the scan of the input cut
\* just before the marker returns, lastmatch at the marker; with scientific
\* only, it is invalid, as it is when no marker follows the digits.
C5_DanglingExponent ==
  (Scanned /\ "scientific" \in options.format) =>
    /\ (Dangling /\ "fixed" \in options.format) =>
         LET cut == IF MarkerPos = start THEN Answer0
                    ELSE parse_number_string(SubSeq(buf, 1, MarkerPos - 1), start,
                                             MarkerPos, options, env)
         IN  /\ answer.valid = cut.valid
             /\ answer.valid =>
                  /\ answer.lastmatch = MarkerPos
                  /\ cut.lastmatch = MarkerPos
                  /\ answer.mantissa = cut.mantissa
                  /\ answer.exponent = cut.exponent
                  /\ answer.is_64bit_int = cut.is_64bit_int
                  /\ answer.too_many_digits = cut.too_many_digits
    /\ (Dangling /\ "fixed" \notin options.format) => ~answer.valid
    /\ (~MarkerPresent /\ "fixed" \notin options.format) => ~answer.valid

\* C5 witness: a literal with a fraction and a dangling marker, accepted up to
\* the marker.
C5_Witness ==
  /\ Scanned /\ Dangling /\ "fixed" \in options.format
  /\ "scientific" \in options.format
  /\ answer.valid /\ answer.lastmatch = MarkerPos /\ answer.fraction.len > 0

\* C6 as stated: a valid result with too_many_digits has is_64bit_int false,
\* no 64-bit overflow in the re-derivation, and is a sound truncation,
\* mantissa * 10^exponent <= |literal| < (mantissa + 1) * 10^exponent: for some
\* k the mantissa is the digits with the last k dropped and exponent is the
\* explicit exponent the input spells, minus the fraction digits, plus k; and
\* outside the carve-out too_many_digits is set exactly for more than 19
\* digits after the leading zeros.
C6_SoundTruncation ==
  /\ (Scanned /\ answer.valid /\ answer.too_many_digits) =>
       /\ ~answer.is_64bit_int
       /\ ~answer.rewalk_overflow
       /\ \E k \in 0..Len(AllDigits) :
            TruncatedBy(k) /\ ExplicitIs(answer.exponent + Len(FracDigits) - k)
  /\ (Scanned /\ answer.valid /\ ~CarveOut) =>
       (answer.too_many_digits <=> SigDigits > 19)

\* C6 amended: the same, where the explicit exponent is the one the scanner
\* accumulated: the exponent the input spells when its magnitude is below
\* 0x10000000 after its last digit but one, and otherwise its leading digits
\* up to the first value of at least 0x10000000.
C6_SoundTruncationClamped ==
  /\ (Scanned /\ answer.valid /\ answer.too_many_digits) =>
       /\ ~answer.is_64bit_int
       /\ ~answer.rewalk_overflow
       /\ \E k \in 0..Len(AllDigits) :
            TruncatedBy(k) /\ answer.exponent + Len(FracDigits) - k = answer.exp_number
       /\ LET acc == DecimalOf(Abs(answer.exp_number))
              spelt == StripZeros(ExpDigits)
          IN  /\ Len(acc) <= Len(spelt) /\ acc = SubSeq(spelt, 1, Len(acc))
              /\ Len(acc) < Len(spelt) =>
                   Abs(answer.exp_number) >= ExpClamp
              /\ answer.exp_number < 0 => ExpNeg
              /\ answer.exp_number > 0 => ~ExpNeg
  /\ (Scanned /\ answer.valid /\ ~CarveOut) =>
       (answer.too_many_digits <=> SigDigits > 19)

\* C6 witness: a truncated result whose walk went into the fraction, with an
\* explicit exponent.
C6_Witness ==
  /\ Scanned /\ answer.valid /\ answer.too_many_digits
  /\ answer.rewalk_end > answer.fraction.ptr /\ HasPoint
  /\ answer.exp_number # 0

\* C7: every byte the scan reads lies inside [start, end), the 8-byte batch
\* read included.
C7_ReadsInRange ==
  Scanned => \A r \in answer.reads : start <= r /\ r < pend

\* C7 witness: a scan that folded two batches and then re-walked its spans.
C7_Witness ==
  Scanned /\ answer.valid /\ answer.batches >= 2 /\ answer.rewalk_end # 0

\* C8: read_u64 returns, on either path, the word whose least-significant
\* byte is byte 0 of memory, and read_u64 after write_u64 returns the word
\* stored.
C8_CanonicalWord ==
  /\ pc = "read" => word = [k \in Lanes |-> mem[k]]
  /\ pc = "readback" => word = stored

\* C9: is_made_of_eight_digits_fast holds of a word exactly when its 8 lanes
\* are ASCII digits, parse_eight_digits_unrolled of such a word is the decimal
\* number whose most significant digit is byte 0, and the scan with the batch
\* loop returns what the scan without it returns.
C9_BatchEquivalent ==
  /\ pc = "tested" =>
       /\ eight.is <=> \A k \in Lanes : is_integer(word[k])
       /\ eight.is => eight.val = Wrap64(NatOfDigits([k \in Lanes |-> word[k] - 48]))
  /\ Scanned => Visible(answer) = Visible(ScalarScan(buf, start, pend, options))

\* C9 witness: a scan that folded two batches into the mantissa it returned.
C9_Witness ==
  Scanned /\ answer.valid /\ answer.batches >= 2 /\ ~answer.too_many_digits

\* C10 as stated: the walk stops before the digit that would take the value to
\* 10^18, so the mantissa is below 10^18, and the exponent is the number of
\* digits left unconsumed in the span walked plus the explicit exponent.
C10_StopsBelow ==
  (Scanned /\ answer.valid /\ answer.too_many_digits) =>
    /\ U64Less(answer.mantissa, minimal_nineteen_digit_integer)
    /\ answer.exponent =
         (IF answer.rewalk_end <= IntEnd THEN IntEnd - answer.rewalk_end
          ELSE MantEnd - answer.rewalk_end) + answer.exp_number

\* C10 amended: the walk consumes the digit that takes the value to 10^18 and
\* stops after it, so the mantissa has 19 digits; the exponent is the integer
\* digits left unconsumed plus the explicit exponent when the walk stops in the
\* integer span, and the explicit exponent minus the fraction digits consumed
\* when it goes on into the fraction.
C10_StopsAfter ==
  (Scanned /\ answer.valid /\ answer.too_many_digits) =>
    /\ ~U64Less(answer.mantissa, minimal_nineteen_digit_integer)
    /\ U64Less(answer.mantissa, minimal_twenty_digit_integer)
    /\ answer.rewalk_end <= IntEnd =>
         /\ answer.rewalk_end > answer.integer.ptr
         /\ answer.exponent = (IntEnd - answer.rewalk_end) + answer.exp_number
    /\ answer.rewalk_end > IntEnd =>
         /\ HasPoint /\ answer.rewalk_end <= MantEnd
         /\ answer.exponent = answer.exp_number - (answer.rewalk_end - answer.fraction.ptr)

\* C10 witness: a walk that stopped inside the fraction with digits left over.
C10_Witness ==
  /\ Scanned /\ answer.valid /\ answer.too_many_digits
  /\ answer.rewalk_end > IntEnd /\ answer.rewalk_end < MantEnd

====
